---- MODULE Spec2Model ----
(***************************************************************************)
(* Workflow orchestration layer of the market-research report generator:   *)
(* the Run State (orchestration/state.py), its reducers, the nodes and     *)
(* routing functions of MultiAgentWorkflow (orchestration/graph_builder.py) *)
(* and the staffing decision that seeds required_agents.                   *)
(*                                                                         *)
(* Python's Optional values are modelled as sequences of length at most 1: *)
(* None is <<>>, a present value x is <<x>>.                               *)
(***************************************************************************)
EXTENDS Integers, Sequences, FiniteSets, TLC

VARIABLES
    state,      \* the Run State (AgentState) held in the graph's channels
    pc,         \* the node the graph executes next, "END", or "raised"
    trace,      \* history: the nodes executed so far, in order
    failed,     \* history: the nodes whose agent raised in this run
    snapshot,   \* fan-out mode: the Run State both branches read
    pending,    \* fan-out mode: updates returned by branches, not yet merged
    branches,   \* fan-out mode: the role nodes still to execute
    outcome,    \* history: what the agent called in the last step did
    citation_tracker,  \* DataCollectorAgent.citation_tracker.citations of the
                       \* process-wide workflow instance (keyed by url)
    session     \* the number of the session the workflow instance is running

vars == <<state, pc, trace, failed, snapshot, pending, branches,
          outcome, citation_tracker, session>>

None == <<>>
Some(x) == <<x>>

\* ------------------------------------------------------------------ bounds

MaxSourceCount == 4

SourceCounts == 0..MaxSourceCount
PageCounts == {5, 20, 40}
Complexities == {"simple", "medium", "complex"}

\* The urls the data collector scrapes for a request
UrlLists == {<<"url_a">>, <<"url_b">>, <<"url_a", "url_b">>}

\* ReportRequirements as submitted: the fields the orchestration reads.
\* has_api_keyword abstracts "topic or request text contains one of the
\* api_keywords"; has_api_requests abstracts a non-empty api_requests list.
RequirementsSet ==
    [source_count : SourceCounts,
     page_count : PageCounts,
     complexity : Complexities,
     include_analysis : BOOLEAN,
     has_api_keyword : BOOLEAN,
     has_api_requests : BOOLEAN,
     urls : UrlLists]

\* The requests of the single-session run: one list of urls
RunRequirements == {req \in RequirementsSet : req.urls = <<"url_a", "url_b">>}

\* ---------------------------------------------------------------- reducers

Max(a, b) == IF a >= b THEN a ELSE b

\* str.strip() leaves nothing: the blank strings of the model
BlankStrings == {"", " "}

take_last_status_keeps_first(left, right) ==
    IF left \notin BlankStrings THEN left ELSE right

take_last_status(left, right) ==
    IF right \notin BlankStrings THEN right
    ELSE IF left \notin BlankStrings THEN left ELSE right

take_last_agent(left, right) ==
    IF right # None /\ right # Some("") THEN right
    ELSE IF left # None /\ left # Some("") THEN left ELSE right

merge_completion_status_left_wins(left, right) ==
    IF left = None /\ right = None THEN None
    ELSE IF left = None THEN right
    ELSE IF right = None THEN left
    ELSE Some([k \in (DOMAIN left[1]) \cup (DOMAIN right[1]) |->
                 IF k \in DOMAIN left[1] THEN left[1][k] ELSE right[1][k]])

merge_completion_status_drops_shared(left, right) ==
    IF left = None /\ right = None THEN None
    ELSE IF left = None THEN right
    ELSE IF right = None THEN left
    ELSE Some([k \in ((DOMAIN left[1]) \cup (DOMAIN right[1]))
                        \ ((DOMAIN left[1]) \cap (DOMAIN right[1])) |->
                 IF k \in DOMAIN right[1] THEN right[1][k] ELSE left[1][k]])

merge_completion_status(left, right) ==
    IF left = None /\ right = None THEN None
    ELSE IF left = None THEN right
    ELSE IF right = None THEN left
    ELSE Some([k \in (DOMAIN left[1]) \cup (DOMAIN right[1]) |->
                 IF k \in DOMAIN right[1] THEN right[1][k] ELSE left[1][k]])

add(left, right) == left \o right

Reduce_unannotated_errors(field, left, right) ==
    CASE field = "status" -> take_last_status(left, right)
      [] field = "current_agent" -> take_last_agent(left, right)
      [] field = "agent_completion_status" -> merge_completion_status(left, right)
      [] field \in {"citations", "completed_tasks"} -> add(left, right)
      [] OTHER -> right

\* The reducer AgentState annotates each field with; fields without an
\* annotation are overwritten by the update.
Reduce(field, left, right) ==
    CASE field = "status" -> take_last_status(left, right)
      [] field = "current_agent" -> take_last_agent(left, right)
      [] field = "agent_completion_status" -> merge_completion_status(left, right)
      [] field \in {"citations", "completed_tasks", "errors"} -> add(left, right)
      [] OTHER -> right

\* A node's partial update merged into the Run State field by field.
ApplyUpdate(s, u) ==
    [f \in DOMAIN s |-> IF f \in DOMAIN u THEN Reduce(f, s[f], u[f]) ELSE s[f]]

create_initial_state(report_requirements) ==
    [report_requirements |-> report_requirements,
     research_plan |-> None,
     cost_estimate |-> None,
     web_research_data |-> None,
     api_research_data |-> None,
     analysis_results |-> None,
     report_structure |-> None,
     llm_generated_content |-> None,
     report_content |-> None,
     report_path |-> None,
     pdf_path |-> None,
     citations |-> <<>>,
     status |-> "initialized",
     current_agent |-> None,
     completed_tasks |-> <<>>,
     errors |-> <<>>,
     agent_completion_status |-> None,
     required_agents |-> None]

\* ------------------------------------------------------- staffing decision

\* complexity_multipliers, doubled to stay in the integers: 1.0, 1.5, 2.0
complexity_multipliers2(complexity) ==
    CASE complexity = "simple" -> 2
      [] complexity = "medium" -> 3
      [] complexity = "complex" -> 4
      [] OTHER -> 3

\* Variants of the staffing decision: "no_llm_in_total" leaves the +1 out of
\* the total, "floor" divides without rounding up, "modulo" takes the
\* remainder instead of the quotient
staffing_variant(req, variant) ==
    LET sources_per_collector ==
            Max(3, (5 * 2) \div complexity_multipliers2(req.complexity))
        data_collectors ==
            CASE variant = "floor" ->
                    Max(1, req.source_count \div sources_per_collector)
              [] variant = "modulo" ->
                    Max(1, (req.source_count + sources_per_collector - 1)
                               % sources_per_collector)
              [] OTHER ->
                    Max(1, (req.source_count + sources_per_collector - 1)
                               \div sources_per_collector)
        api_researchers ==
            IF req.complexity \in {"medium", "complex"} /\ req.has_api_keyword
            THEN (IF req.complexity = "medium" THEN 1 ELSE 2)
            ELSE 0
        analysts ==
            IF req.include_analysis THEN Max(1, req.page_count \div 20) ELSE 0
    IN  [data_collectors |-> data_collectors,
         api_researchers |-> api_researchers,
         analysts |-> analysts,
         straight_through_llm |-> 1,
         estimated_sources_per_collector |-> sources_per_collector,
         total_agents_needed |->
             data_collectors + api_researchers + analysts
                 + (IF variant = "no_llm_in_total" THEN 0 ELSE 1)]

analyze_requirements_no_llm_in_total(req) == staffing_variant(req, "no_llm_in_total")

analyze_requirements_floor(req) == staffing_variant(req, "floor")

analyze_requirements_modulo(req) == staffing_variant(req, "modulo")

analyze_requirements(req) ==
    LET sources_per_collector ==
            Max(3, (5 * 2) \div complexity_multipliers2(req.complexity))
        data_collectors ==
            Max(1, (req.source_count + sources_per_collector - 1)
                       \div sources_per_collector)
        api_researchers ==
            IF req.complexity \in {"medium", "complex"} /\ req.has_api_keyword
            THEN (IF req.complexity = "medium" THEN 1 ELSE 2)
            ELSE 0
        analysts ==
            IF req.include_analysis THEN Max(1, req.page_count \div 20) ELSE 0
    IN  [data_collectors |-> data_collectors,
         api_researchers |-> api_researchers,
         analysts |-> analysts,
         straight_through_llm |-> 1,
         estimated_sources_per_collector |-> sources_per_collector,
         total_agents_needed |-> data_collectors + api_researchers + analysts + 1]

\* ------------------------------------------------------------------- nodes

Range(seq) == {seq[i] : i \in DOMAIN seq}

\* A node or routing function that lets an exception escape
Raised == [exception |-> TRUE]

\* The update every node returns from its except branch
error_update(agent) ==
    [status |-> "error", errors |-> <<[agent |-> agent]>>]

mark_complete_fresh_map(s, agent) ==
    LET m == s.agent_completion_status[1]
    IN  Some([k \in (DOMAIN m) \cup {agent} |-> k = agent])

\* completion_status = state.get("agent_completion_status", {}).copy()
\* completion_status[agent] = True          (the caller excludes None)
mark_complete(s, agent) ==
    LET m == s.agent_completion_status[1]
    IN  Some([k \in (DOMAIN m) \cup {agent} |-> IF k = agent THEN TRUE ELSE m[k]])

\* completion_status.get(agent, False)
completion_get(s, agent) ==
    LET m == s.agent_completion_status[1]
    IN  IF agent \in DOMAIN m THEN m[agent] ELSE FALSE

\* res is the outcome of the agent's execute(): "raise", or what it returns.

cost_calculator_node(s, res) ==
    IF res # "raise"
    THEN [cost_estimate |-> Some(res),
          status |-> "cost_estimated",
          current_agent |-> Some("cost_calculator"),
          completed_tasks |-> <<"cost_estimation">>]
    ELSE error_update("cost_calculator")

required_agents_of_analyst_always(breakdown) ==
    (IF breakdown.data_collectors > 0 THEN <<"data_collector">> ELSE <<>>)
    \o (IF breakdown.api_researchers > 0 THEN <<"api_researcher">> ELSE <<>>)
    \o (IF breakdown.analysts >= 0 THEN <<"analyst">> ELSE <<>>)
    \o <<"straight_through_llm">>

\* required_agents as _lead_researcher_node derives it from agent_breakdown
required_agents_of(breakdown) ==
    (IF breakdown.data_collectors > 0 THEN <<"data_collector">> ELSE <<>>)
    \o (IF breakdown.api_researchers > 0 THEN <<"api_researcher">> ELSE <<>>)
    \o (IF breakdown.analysts > 0 THEN <<"analyst">> ELSE <<>>)
    \o <<"straight_through_llm">>

lead_researcher_node(s, res) ==
    IF res # "raise"
    THEN LET required_agents ==
                 required_agents_of(analyze_requirements(s.report_requirements))
         IN  [research_plan |-> Some("research_plan"),
              status |-> "strategy_created",
              current_agent |-> Some("lead_researcher"),
              completed_tasks |-> <<"research_strategy">>,
              required_agents |-> Some(required_agents),
              agent_completion_status |->
                  Some([a \in Range(required_agents) |-> FALSE])]
    ELSE error_update("lead_researcher")

synthesizer_node(s, res) ==
    IF res # "raise"
    THEN [report_structure |-> Some("report_structure"),
          status |-> "structure_created",
          current_agent |-> Some("synthesizer"),
          completed_tasks |-> <<"report_structure_synthesis">>]
    ELSE error_update("synthesizer")

\* CitationTracker.add_citation: a source already in citation_map is not
\* added again
add_citation(citations, url) ==
    IF url \in Range(citations) THEN citations ELSE Append(citations, url)

RECURSIVE add_citations(_, _)
add_citations(citations, urls) ==
    IF urls = <<>> THEN citations
    ELSE add_citations(add_citation(citations, Head(urls)), Tail(urls))

\* DataCollectorAgent.execute on the agent instance's citation tracker: every
\* scraped url is added, and the result carries get_all_citations()
data_collector_execute(tracker, urls) ==
    LET after == add_citations(tracker, urls)
    IN  [citations |-> after, citation_tracker |-> after]

\* .copy() on a None agent_completion_status raises inside the try block
data_collector_node(s, res) ==
    IF res # "raise" /\ s.agent_completion_status # None
    THEN [web_research_data |-> Some("web_research_data"),
          citations |->
              data_collector_execute(citation_tracker,
                                     s.report_requirements.urls).citations,
          status |-> "web_research_complete",
          current_agent |-> Some("data_collector"),
          completed_tasks |-> <<"web_data_collection">>,
          agent_completion_status |-> mark_complete(s, "data_collector")]
    ELSE error_update("data_collector")

api_researcher_node(s, res) ==
    IF s.agent_completion_status = None THEN error_update("api_researcher")
    ELSE IF ~s.report_requirements.has_api_requests
    THEN [api_research_data |-> Some("skipped"),
          status |-> "api_research_skipped",
          current_agent |-> Some("api_researcher"),
          completed_tasks |-> <<"api_data_collection">>,
          agent_completion_status |-> mark_complete(s, "api_researcher")]
    ELSE IF res # "raise"
    THEN [api_research_data |-> Some("api_research_data"),
          citations |-> <<"api_citation">>,
          status |-> "api_research_complete",
          current_agent |-> Some("api_researcher"),
          completed_tasks |-> <<"api_data_collection">>,
          agent_completion_status |-> mark_complete(s, "api_researcher")]
    ELSE error_update("api_researcher")

\* analyst_node with an except branch that marks the role complete, as the
\* except branch of straight_through_llm_node does
analyst_node_marks_on_error(s, res) ==
    IF s.agent_completion_status = None THEN error_update("analyst")
    ELSE IF res # "raise"
    THEN [analysis_results |-> Some("analysis"),
          status |-> "analysis_complete",
          current_agent |-> Some("analyst"),
          completed_tasks |-> <<"data_analysis">>,
          agent_completion_status |-> mark_complete(s, "analyst")]
    ELSE [status |-> "error",
          agent_completion_status |-> mark_complete(s, "analyst"),
          errors |-> <<[agent |-> "analyst"]>>]

analyst_node(s, res) ==
    IF res # "raise" /\ s.agent_completion_status # None
    THEN [analysis_results |-> Some("analysis"),
          status |-> "analysis_complete",
          current_agent |-> Some("analyst"),
          completed_tasks |-> <<"data_analysis">>,
          agent_completion_status |-> mark_complete(s, "analyst")]
    ELSE error_update("analyst")

\* The except branch copies agent_completion_status again, outside any try.
straight_through_llm_node(s, res) ==
    IF s.agent_completion_status = None THEN Raised
    ELSE IF s.report_structure # None /\ res # "raise"
    THEN [llm_generated_content |-> Some("llm_generated_content"),
          status |-> "llm_content_complete",
          current_agent |-> Some("straight_through_llm"),
          completed_tasks |-> <<"llm_content_generation">>,
          agent_completion_status |-> mark_complete(s, "straight_through_llm")]
    ELSE [status |-> "error",
          agent_completion_status |-> mark_complete(s, "straight_through_llm"),
          errors |-> <<[agent |-> "straight_through_llm"]>>]

check_completion_node_sets_status(s, res) ==
    IF s.required_agents = None THEN Raised
    ELSE IF s.required_agents[1] # <<>> /\ s.agent_completion_status = None
    THEN Raised
    ELSE [status |-> "completion_checked",
          current_agent |-> Some("check_completion")]

\* The node iterates required_agents and calls completion_status.get outside
\* any try block; it returns {}.
check_completion_node(s, res) ==
    IF s.required_agents = None THEN Raised
    ELSE IF s.required_agents[1] # <<>> /\ s.agent_completion_status = None
    THEN Raised
    ELSE <<>>

writer_node_requires_structure(s, res) ==
    IF s.required_agents = None THEN Raised
    ELSE IF s.required_agents[1] # <<>> /\ s.agent_completion_status = None
    THEN Raised
    ELSE IF res # "raise" /\ s.report_structure # None
    THEN [report_content |-> Some("report"),
          report_path |-> Some("report_path"),
          pdf_path |-> Some("pdf_path"),
          status |-> "completed",
          current_agent |-> Some("writer"),
          completed_tasks |-> <<"report_writing">>]
    ELSE error_update("writer")

\* The logging before the try block evaluates
\* all(completion_status.get(agent, False) for agent in required_agents).
writer_node(s, res) ==
    IF s.required_agents = None THEN Raised
    ELSE IF s.required_agents[1] # <<>> /\ s.agent_completion_status = None
    THEN Raised
    ELSE IF res # "raise"
    THEN [report_content |-> Some("report"),
          report_path |-> Some("report_path"),
          pdf_path |-> Some("pdf_path"),
          status |-> "completed",
          current_agent |-> Some("writer"),
          completed_tasks |-> <<"report_writing">>]
    ELSE error_update("writer")

\* ----------------------------------------------------------------- routing

\* "agent in required_agents and not completion_status.get(agent, False)"
still_required(s, agent) ==
    agent \in Range(s.required_agents[1]) /\ ~completion_get(s, agent)

\* The expression above raises when required_agents is None, or when the
\* role is required and agent_completion_status is None.
routing_raises(s, agents) ==
    \/ s.required_agents = None
    \/ /\ s.agent_completion_status = None
       /\ \E a \in agents : a \in Range(s.required_agents[1])

route_after_cost_estimate_high_cost(s) ==
    IF s.cost_estimate = None THEN "proceed"
    ELSE IF s.cost_estimate[1] = "red" THEN "high_cost"
    ELSE "proceed"

route_after_cost_estimate(s) ==
    IF s.cost_estimate = None THEN "proceed"
    ELSE IF s.cost_estimate[1] = "red" THEN "proceed"
    ELSE "proceed"

\* route_after_data_collector with the analyst test ahead of the
\* api_researcher test
route_after_data_collector_swapped(s) ==
    IF routing_raises(s, {"api_researcher", "analyst", "straight_through_llm"})
    THEN "raise"
    ELSE IF still_required(s, "analyst") THEN "to_analyst"
    ELSE IF still_required(s, "api_researcher") THEN "to_api"
    ELSE IF still_required(s, "straight_through_llm") THEN "to_llm"
    ELSE "to_check"

route_after_data_collector(s) ==
    IF routing_raises(s, {"api_researcher", "analyst", "straight_through_llm"})
    THEN "raise"
    ELSE IF still_required(s, "api_researcher") THEN "to_api"
    ELSE IF still_required(s, "analyst") THEN "to_analyst"
    ELSE IF still_required(s, "straight_through_llm") THEN "to_llm"
    ELSE "to_check"

route_after_api_researcher(s) ==
    IF routing_raises(s, {"analyst", "straight_through_llm"}) THEN "raise"
    ELSE IF still_required(s, "analyst") THEN "to_analyst"
    ELSE IF still_required(s, "straight_through_llm") THEN "to_llm"
    ELSE "to_check"

\* route_after_analyst without the straight_through_llm branch
route_after_analyst_skips_llm(s) ==
    IF routing_raises(s, {"straight_through_llm"}) THEN "raise"
    ELSE "to_check"

route_after_analyst(s) ==
    IF routing_raises(s, {"straight_through_llm"}) THEN "raise"
    ELSE IF still_required(s, "straight_through_llm") THEN "to_llm"
    ELSE "to_check"

\* route_after_completion_check without the all(...) test
route_after_completion_check_ungated(s) ==
    IF routing_raises(s, {"data_collector", "api_researcher", "analyst",
                          "straight_through_llm"})
    THEN "raise"
    ELSE "all_complete"

route_after_completion_check(s) ==
    IF routing_raises(s, {"data_collector", "api_researcher", "analyst",
                          "straight_through_llm"})
    THEN "raise"
    ELSE IF \A a \in Range(s.required_agents[1]) : completion_get(s, a)
    THEN "all_complete"
    ELSE "incomplete"

\* The edges of _build_graph: the node that follows `node` in Run State s.
next_node(node, s) ==
    CASE node = "cost_calculator" ->
            LET r == route_after_cost_estimate(s)
            IN  IF r = "proceed" THEN "lead_researcher" ELSE "END"
      [] node = "lead_researcher" -> "synthesizer"
      [] node = "synthesizer" -> "data_collector"
      [] node = "data_collector" ->
            LET r == route_after_data_collector(s)
            IN  CASE r = "to_api" -> "api_researcher"
                  [] r = "to_analyst" -> "analyst"
                  [] r = "to_llm" -> "straight_through_llm"
                  [] r = "to_check" -> "check_completion"
                  [] OTHER -> "raised"
      [] node = "api_researcher" ->
            LET r == route_after_api_researcher(s)
            IN  CASE r = "to_analyst" -> "analyst"
                  [] r = "to_llm" -> "straight_through_llm"
                  [] r = "to_check" -> "check_completion"
                  [] OTHER -> "raised"
      [] node = "analyst" ->
            LET r == route_after_analyst(s)
            IN  CASE r = "to_llm" -> "straight_through_llm"
                  [] r = "to_check" -> "check_completion"
                  [] OTHER -> "raised"
      [] node = "straight_through_llm" -> "check_completion"
      [] node = "check_completion" ->
            LET r == route_after_completion_check(s)
            IN  CASE r = "all_complete" -> "writer"
                  [] r = "incomplete" -> "END"
                  [] OTHER -> "raised"
      [] node = "writer" -> "END"

\* ------------------------------------------------------- the graph's run

BudgetStatuses == {"green", "yellow", "red"}

\* What the agent behind a node can do when it is called
Outcomes(node) ==
    IF node = "cost_calculator" THEN BudgetStatuses \cup {"raise"}
    ELSE {"ok", "raise"}

node_update(node, s, res) ==
    CASE node = "cost_calculator" -> cost_calculator_node(s, res)
      [] node = "lead_researcher" -> lead_researcher_node(s, res)
      [] node = "synthesizer" -> synthesizer_node(s, res)
      [] node = "data_collector" -> data_collector_node(s, res)
      [] node = "api_researcher" -> api_researcher_node(s, res)
      [] node = "analyst" -> analyst_node(s, res)
      [] node = "straight_through_llm" -> straight_through_llm_node(s, res)
      [] node = "check_completion" -> check_completion_node(s, res)
      [] node = "writer" -> writer_node(s, res)

\* One super-step of graph.invoke: the node returns its update, the reducers
\* merge it, the node's outgoing edge picks the successor.  An exception that
\* escapes the node or its routing function ends the run; the step's update
\* is not committed.
Step(node) ==
    /\ pc = node
    /\ \E res \in Outcomes(node) :
         LET u == node_update(node, state, res)
             s2 == IF u = Raised THEN state ELSE ApplyUpdate(state, u)
             nxt == IF u = Raised THEN "raised" ELSE next_node(node, s2)
         IN  /\ pc' = nxt
             /\ state' = IF nxt = "raised" THEN state ELSE s2
             /\ trace' = Append(trace, node)
             /\ failed' = IF u # Raised /\ "errors" \in DOMAIN u
                          THEN failed \cup {node} ELSE failed
             /\ outcome' = res
             /\ citation_tracker' =
                    IF node = "data_collector" /\ res # "raise"
                    THEN data_collector_execute(
                             citation_tracker,
                             state.report_requirements.urls).citation_tracker
                    ELSE citation_tracker
    /\ UNCHANGED <<snapshot, pending, branches, session>>

CostCalculator == Step("cost_calculator")
LeadResearcher == Step("lead_researcher")
Synthesizer == Step("synthesizer")
DataCollector == Step("data_collector")
ApiResearcher == Step("api_researcher")
Analyst == Step("analyst")
StraightThroughLLM == Step("straight_through_llm")
CheckCompletion == Step("check_completion")
Writer == Step("writer")

\* workflow.execute: create_initial_state, then graph.invoke from START
Init ==
    /\ \E req \in RunRequirements : state = create_initial_state(req)
    /\ pc = "cost_calculator"
    /\ trace = <<>>
    /\ failed = {}
    /\ snapshot = None
    /\ pending = <<>>
    /\ branches = {}
    /\ outcome = "none"
    /\ citation_tracker = <<>>
    /\ session = 1

Next ==
    \/ CostCalculator
    \/ LeadResearcher
    \/ Synthesizer
    \/ DataCollector
    \/ ApiResearcher
    \/ Analyst
    \/ StraightThroughLLM
    \/ CheckCompletion
    \/ Writer

Spec == Init /\ [][Next]_vars

\* ------------------------------------------------ concurrent fan-out mode
\* The execution mode the reducers are written for: the optional role nodes
\* that are required run concurrently from one Run State snapshot taken after
\* structure synthesis; each returns its update, and the reducers merge the
\* updates one at a time in arrival order.

FanOutRoles == {"data_collector", "api_researcher", "analyst"}

\* The Run State after cost_calculator, lead_researcher and synthesizer
state_after_synthesizer(req, cres, sres) ==
    LET s0 == create_initial_state(req)
        s1 == ApplyUpdate(s0, cost_calculator_node(s0, cres))
        s2 == ApplyUpdate(s1, lead_researcher_node(s1, "ok"))
    IN  ApplyUpdate(s2, synthesizer_node(s2, sres))

InitFanOut ==
    /\ \E req \in RunRequirements, cres \in Outcomes("cost_calculator"),
          sres \in Outcomes("synthesizer") :
         state = state_after_synthesizer(req, cres, sres)
    /\ snapshot = state
    /\ branches = FanOutRoles \cap Range(state.required_agents[1])
    /\ Cardinality(branches) >= 2
    /\ pending = <<>>
    /\ pc = "fan_out"
    /\ trace = <<>>
    /\ failed = {}
    /\ outcome = "none"
    /\ citation_tracker = <<>>
    /\ session = 1

\* A branch node runs on the snapshot and returns its update.
BranchReturn ==
    /\ pc = "fan_out"
    /\ \E node \in branches : \E res \in Outcomes(node) :
         LET u == node_update(node, snapshot, res)
         IN  /\ pending' = [n \in (DOMAIN pending) \cup {node} |->
                              IF n = node THEN u ELSE pending[n]]
             /\ branches' = branches \ {node}
             /\ failed' = IF "errors" \in DOMAIN u
                          THEN failed \cup {node} ELSE failed
    /\ UNCHANGED <<state, pc, trace, snapshot, outcome, citation_tracker, session>>

\* The reducers merge one returned update into the Run State; trace records
\* the arrival order.
MergeUpdate ==
    /\ pc = "fan_out"
    /\ \E node \in DOMAIN pending :
         /\ state' = ApplyUpdate(state, pending[node])
         /\ pending' = [n \in (DOMAIN pending) \ {node} |-> pending[n]]
         /\ trace' = Append(trace, node)
    /\ UNCHANGED <<pc, failed, snapshot, branches, outcome, citation_tracker,
                   session>>

\* Every branch has returned and every update is merged.
FanIn ==
    /\ pc = "fan_out"
    /\ branches = {}
    /\ DOMAIN pending = {}
    /\ pc' = "fan_in"
    /\ UNCHANGED <<state, trace, failed, snapshot, pending, branches, outcome,
                   citation_tracker, session>>

NextFanOut ==
    \/ BranchReturn
    \/ MergeUpdate
    \/ FanIn

SpecFanOut == InitFanOut /\ [][NextFanOut]_vars

\* ------------------------------------------------------------ vocabulary

RoleNodes == {"data_collector", "api_researcher", "analyst", "straight_through_llm"}

Last(seq) == seq[Len(seq)]

Executed(node) == \E i \in DOMAIN trace : trace[i] = node

TimesExecuted(node) == Cardinality({i \in DOMAIN trace : trace[i] = node})

IsRequired(role) ==
    state.required_agents # None /\ role \in Range(state.required_agents[1])

Flag(role) ==
    /\ state.agent_completion_status # None
    /\ role \in DOMAIN state.agent_completion_status[1]
    /\ state.agent_completion_status[1][role]

AllRequiredComplete ==
    /\ state.required_agents # None
    /\ \A r \in Range(state.required_agents[1]) : Flag(r)

\* the graph reached END
AtEnd == pc = "END"

\* the run is over: the graph reached END or an exception left graph.invoke
RunOver == pc \in {"END", "raised"}

\* ------------------------------------------------------------------ claims

\* C1: the writer node executes only in a Run State in which every role of
\* required_agents has its completion flag true; when check_completion has run
\* with some required flag false, the run is at END and the writer did not run.
C1_Gating ==
    /\ (pc = "writer" \/ Executed("writer")) => AllRequiredComplete
    /\ (trace # <<>> /\ Last(trace) = "check_completion" /\ ~AllRequiredComplete)
          => (pc = "END" /\ ~Executed("writer"))

\* C1 witness: the gate refused: a required role failed, check_completion
\* ran, and the run ended at END.
C1_Witness ==
    /\ pc = "END"
    /\ Last(trace) = "check_completion"
    /\ "api_researcher" \in failed
    /\ Len(state.required_agents[1]) = 4

\* C2 (as claimed): whenever a run is over, the completion flag of
\* straight_through_llm is true, whichever other nodes failed.
C2_FlagWhenRunOver == RunOver => Flag("straight_through_llm")

\* C3 (as claimed): whenever the graph reaches END, llm_generated_content is
\* present, whichever nodes failed.
C3_PayloadAtEnd == AtEnd => state.llm_generated_content # None

\* C4: if the node of data_collector, api_researcher or analyst failed, the
\* writer is not the next node and never executed, and report_content,
\* report_path and pdf_path are unset.
C4_FailedRoleBlocksWriter ==
    \A r \in {"data_collector", "api_researcher", "analyst"} :
        r \in failed =>
            /\ pc # "writer"
            /\ ~Executed("writer")
            /\ state.report_content = None
            /\ state.report_path = None
            /\ state.pdf_path = None

\* C4 witness: the analyst node failed, it was a required role, and the run
\* ended.
C4_Witness ==
    /\ pc = "END"
    /\ "analyst" \in failed
    /\ IsRequired("analyst")
    /\ Executed("straight_through_llm")

\* C5 (as claimed): if the node of a required role raised, then at END the
\* status is "error" and the error list is non-empty.
C5_ErrorStatusAtEnd ==
    (AtEnd /\ \E r \in {"data_collector", "api_researcher", "analyst"} :
                 r \in failed /\ IsRequired(r))
        => (state.status = "error" /\ state.errors # <<>>)

\* C6 (as claimed): at END the status is "completed" or "error".
C6_TerminalStatus == AtEnd => state.status \in {"completed", "error"}

\* C7 (as claimed): no run raises, and every node failure has its entry in
\* the errors list.
C7_NoRaise ==
    /\ pc # "raised"
    /\ \A n \in failed : \E i \in DOMAIN state.errors : state.errors[i].agent = n

\* C8 (as claimed): after concurrent branches have returned and their updates
\* are merged, every branch that completed has its completion flag true.
C8_FanOutKeepsFlags ==
    pc = "fan_in" => \A r \in Range(trace) : r \in failed \/ Flag(r)

\* The successor the routing rule prescribes after a role node: the next role
\* of the precedence order that is required, check_completion when there is none.
Precedence == <<"data_collector", "api_researcher", "analyst", "straight_through_llm">>

PrecedenceIndex(role) == CHOOSE i \in DOMAIN Precedence : Precedence[i] = role

PrescribedSuccessor(role) ==
    LET later == {i \in DOMAIN Precedence :
                     i > PrecedenceIndex(role) /\ IsRequired(Precedence[i])}
    IN  IF later = {} THEN "check_completion"
        ELSE Precedence[CHOOSE i \in later : \A j \in later : i <= j]

\* C9: the role nodes execute in the order data_collector, api_researcher,
\* analyst, straight_through_llm, each at most once; api_researcher and analyst
\* execute only when required; and the node routed to after a role node is the
\* next required role of that order, check_completion when none remains.
C9_RoutingOrder ==
    /\ \A i, j \in DOMAIN trace :
          (i < j /\ trace[i] \in RoleNodes /\ trace[j] \in RoleNodes)
              => PrecedenceIndex(trace[i]) < PrecedenceIndex(trace[j])
    /\ \A r \in {"api_researcher", "analyst"} :
          (pc = r \/ Executed(r)) => IsRequired(r)
    /\ (trace # <<>> /\ Last(trace) \in RoleNodes /\ pc # "raised")
          => pc = PrescribedSuccessor(Last(trace))

\* C9 witness: a run without api_researcher: analyst followed data_collector
\* directly and all three remaining roles ran before check_completion.
C9_Witness ==
    /\ pc = "check_completion"
    /\ ~IsRequired("api_researcher")
    /\ SubSeq(trace, 4, Len(trace))
          = <<"data_collector", "analyst", "straight_through_llm">>

\* C10: when check_completion is reached, straight_through_llm has executed
\* exactly once before it; and the node after straight_through_llm is
\* check_completion.
C10_FallbackNeverSkipped ==
    /\ (pc = "check_completion" \/ Executed("check_completion"))
          => /\ TimesExecuted("straight_through_llm") = 1
             /\ \A i, j \in DOMAIN trace :
                   (trace[i] = "check_completion" /\ trace[j] = "straight_through_llm")
                       => j < i
    /\ (trace # <<>> /\ Last(trace) = "straight_through_llm")
          => pc = "check_completion"

\* C10 witness: check_completion is reached although data_collector and
\* straight_through_llm both failed, with the smallest staffing.
C10_Witness ==
    /\ pc = "check_completion"
    /\ "data_collector" \in failed
    /\ "straight_through_llm" \in failed
    /\ Len(state.required_agents[1]) = 2

\* ------------------------------------------- the reducers on their own
\* A stored record of the three fields that have a non-list reducer receives
\* partial updates in arrival order; the last update can be applied again.

MaxUpdates == 3

ReducedFields == {"status", "current_agent", "agent_completion_status"}

StatusValues == {"", " ", "planning", "error"}
AgentValues == {None, Some(""), Some(" "), Some("writer")}
CompletionKeys == {"data_collector", "analyst"}
CompletionMaps ==
    UNION {[keys -> BOOLEAN] : keys \in SUBSET CompletionKeys}
CompletionValues == {None} \cup {Some(m) : m \in CompletionMaps}

\* A partial update: no field, or one field with a value
PartialUpdates ==
    {<<>>}
    \cup {[status |-> v] : v \in StatusValues}
    \cup {[current_agent |-> v] : v \in AgentValues}
    \cup {[agent_completion_status |-> v] : v \in CompletionValues}

initial_reduced_fields ==
    LET s0 == create_initial_state(CHOOSE req \in RunRequirements : TRUE)
    IN  [f \in ReducedFields |-> s0[f]]

InitReducers ==
    /\ state = initial_reduced_fields
    /\ pc = "created"
    /\ trace = <<>>
    /\ snapshot = None
    /\ pending = <<>>
    /\ failed = {}
    /\ branches = {}
    /\ outcome = "none"
    /\ citation_tracker = <<>>
    /\ session = 1

\* An update arrives and is merged field by field
ReducerUpdate ==
    /\ pc \in {"created", "reduced", "replayed"}
    /\ Len(trace) < MaxUpdates
    /\ \E u \in PartialUpdates :
         /\ state' = ApplyUpdate(state, u)
         /\ pending' = u
         /\ trace' = Append(trace, u)
    /\ snapshot' = Some(state)
    /\ pc' = "reduced"
    /\ UNCHANGED <<failed, branches, outcome, citation_tracker, session>>

\* The update that arrived last is merged a second time
Replay ==
    /\ pc = "reduced"
    /\ state' = ApplyUpdate(state, pending)
    /\ snapshot' = Some(state)
    /\ pc' = "replayed"
    /\ UNCHANGED <<pending, trace, failed, branches, outcome, citation_tracker,
                   session>>

NextReducers == ReducerUpdate \/ Replay

SpecReducers == InitReducers /\ [][NextReducers]_vars

\* ------------------------------------------------- the session registry
\* StateManager keeps one record per session id; the API routes update it.

\* StateManager.update_state: dict.update of the stored record
update_state(stored, updates) ==
    [f \in (DOMAIN stored) \cup (DOMAIN updates) |->
        IF f \in DOMAIN updates THEN updates[f] ELSE stored[f]]

\* generate_report marks the session before the background task starts
generating_update ==
    [status |-> "generating", current_agent |-> Some("lead_researcher")]

\* _generate_report_background when workflow.execute raised
workflow_error_update ==
    [status |-> "error",
     current_agent |-> Some("workflow"),
     errors |-> <<[agent |-> "workflow"]>>]

\* The partial updates handed to update_state
RegistryUpdates ==
    {<<>>, generating_update, workflow_error_update}
    \cup {[agent_completion_status |-> Some([k \in {key} |-> TRUE])] :
             key \in CompletionKeys}
    \cup {error_update(a) : a \in {"data_collector", "writer"}}
    \cup {[completed_tasks |-> <<task>>] :
             task \in {"cost_estimation", "report_writing"}}
    \cup {[citations |-> urls] : urls \in UrlLists}

\* StateManager.create_state
InitRegistry ==
    /\ state = create_initial_state(CHOOSE req \in RunRequirements : TRUE)
    /\ pc = "created"
    /\ trace = <<>>
    /\ snapshot = None
    /\ pending = <<>>
    /\ failed = {}
    /\ branches = {}
    /\ outcome = "none"
    /\ citation_tracker = <<>>
    /\ session = 1

UpdateState ==
    /\ pc \in {"created", "updated"}
    /\ \E updates \in RegistryUpdates :
         /\ state' = update_state(state, updates)
         /\ pending' = updates
    /\ snapshot' = Some(state)
    /\ pc' = "updated"
    /\ UNCHANGED <<trace, failed, branches, outcome, citation_tracker, session>>

NextRegistry == UpdateState

SpecRegistry == InitRegistry /\ [][NextRegistry]_vars

\* ------------------------------------- sessions on one workflow instance
\* routes.py creates one MultiAgentWorkflow for the process; every session's
\* background task calls workflow.execute on it, with a fresh Run State.

MaxSessions == 2

\* Requests for which every role is staffed; they differ in their urls
SessionRequirements ==
    {req \in RequirementsSet :
        /\ req.source_count = 0
        /\ req.page_count = 20
        /\ req.complexity = "medium"
        /\ req.include_analysis
        /\ req.has_api_keyword
        /\ req.has_api_requests}

InitSessions ==
    /\ \E req \in SessionRequirements : state = create_initial_state(req)
    /\ pc = "cost_calculator"
    /\ trace = <<>>
    /\ failed = {}
    /\ snapshot = None
    /\ pending = <<>>
    /\ branches = {}
    /\ outcome = "none"
    /\ citation_tracker = <<>>
    /\ session = 1

\* The previous run is over and the next session's background task calls
\* workflow.execute: a new initial Run State, the same agent instances.
NextSession ==
    /\ RunOver
    /\ session < MaxSessions
    /\ \E req \in SessionRequirements : state' = create_initial_state(req)
    /\ pc' = "cost_calculator"
    /\ trace' = <<>>
    /\ failed' = {}
    /\ outcome' = "none"
    /\ session' = session + 1
    /\ UNCHANGED <<citation_tracker, snapshot, pending, branches>>

SpecSessions == InitSessions /\ [][Next \/ NextSession]_vars

\* ------------------------------------------------------- the task planner
\* TaskPlanner.create_plan asks the LLM for a plan in JSON and parses it.

MaxResponseLen == 4

\* The LLM's text, token by token: prose, a brace, an element of the
\* "subtasks" array that is a task object, or an element that is not an
\* object (task_data.get raises on it)
ResponseTokens == {"text", "{", "}", "task", "bad_task"}

Responses == UNION {[1..n -> ResponseTokens] : n \in 0..MaxResponseLen}

\* What llm.invoke does: it raises, or it returns a text
LlmResults == [raises : BOOLEAN, response : Responses]

\* re.search(r'\{.*\}', response, re.DOTALL): from the first "{" to the last
\* "}" after it; None when there is no match
json_match(response) ==
    LET opens == {i \in DOMAIN response : response[i] = "{"}
        closes == {j \in DOMAIN response : response[j] = "}"}
    IN  IF opens = {} THEN None
        ELSE LET first == CHOOSE i \in opens : \A k \in opens : i <= k
                 after == {j \in closes : j > first}
             IN  IF after = {} THEN None
                 ELSE Some(SubSeq(response, first,
                                  CHOOSE j \in after : \A k \in after : k <= j))

\* The elements between the outer braces of a matched text
json_elements(text) == SubSeq(text, 2, Len(text) - 1)

\* json.loads raises unless the braces enclose array elements only
json_loads_raises(text) ==
    \E i \in DOMAIN json_elements(text) :
        json_elements(text)[i] \in {"text", "{", "}"}

task_names == <<"task_1", "task_2", "task_3", "task_4", "task_5", "task_6">>

\* SubTask built from a task object that leaves every key to its default
default_subtask(i) ==
    [task_id |-> task_names[i],
     agent_type |-> "data_collector",
     dependencies |-> <<>>,
     priority |-> i]

\* The loop over the array: subtasks are appended until an element raises
RECURSIVE parsed_subtasks(_, _)
parsed_subtasks(elements, i) ==
    IF i > Len(elements) \/ elements[i] = "bad_task" THEN <<>>
    ELSE <<default_subtask(i)>> \o parsed_subtasks(elements, i + 1)

\* _parse_plan_response: every exception is caught inside and the subtasks
\* appended so far are returned
parse_plan_response(response) ==
    LET m == json_match(response)
    IN  IF m = None THEN <<>>
        ELSE IF json_loads_raises(m[1]) THEN <<>>
        ELSE parsed_subtasks(json_elements(m[1]), 1)

create_fallback_plan ==
    [subtasks |->
        <<[task_id |-> "task_1", agent_type |-> "data_collector",
           dependencies |-> <<>>, priority |-> 1],
          [task_id |-> "task_2", agent_type |-> "analyst",
           dependencies |-> <<"task_1">>, priority |-> 2],
          [task_id |-> "task_3", agent_type |-> "writer",
           dependencies |-> <<"task_1", "task_2">>, priority |-> 3]>>]

\* create_plan: the fallback plan is returned from the except branch, which
\* only an exception of llm.invoke reaches
create_plan(llm) ==
    IF llm.raises THEN create_fallback_plan
    ELSE [subtasks |-> parse_plan_response(llm.response)]

InitPlanner ==
    /\ pending \in LlmResults
    /\ state = None
    /\ pc = "planning"
    /\ trace = <<>>
    /\ snapshot = None
    /\ failed = {}
    /\ branches = {}
    /\ outcome = "none"
    /\ citation_tracker = <<>>
    /\ session = 1

CreatePlan ==
    /\ pc = "planning"
    /\ state' = create_plan(pending)
    /\ pc' = "planned"
    /\ UNCHANGED <<pending, trace, snapshot, failed, branches, outcome,
                   citation_tracker, session>>

NextPlanner == CreatePlan

SpecPlanner == InitPlanner /\ [][NextPlanner]_vars

\* --------------------------------------------------- operations on a plan
\* TaskPlanner.optimize_plan and TaskPlanner.get_executable_tasks on a plan
\* whose subtasks carry dependencies and priorities.

MaxDeps == 2
MaxPriority == 2

PlanTaskIds == {"task_1", "task_2", "task_3"}

\* "task_9" is an id that names no subtask of any plan
DependencyOrder == <<"task_1", "task_2", "task_3", "task_9">>

\* Dependency lists: ids in the order above, none twice
DependencyLists ==
    {deps \in UNION {[1..n -> Range(DependencyOrder)] : n \in 0..MaxDeps} :
        \A i, j \in DOMAIN deps :
            i < j => \E a, b \in DOMAIN DependencyOrder :
                        /\ a < b
                        /\ DependencyOrder[a] = deps[i]
                        /\ DependencyOrder[b] = deps[j]}

\* The ids of a plan's subtasks in plan order: up to three distinct ids
IdOrders ==
    {ids \in UNION {[1..n -> PlanTaskIds] : n \in 0..Cardinality(PlanTaskIds)} :
        \A i, j \in DOMAIN ids : i # j => ids[i] # ids[j]}

\* SubTask.priority defaults to 1; get_executable_tasks never reads it
default_priority == 1

\* ResearchPlan(subtasks=[SubTask(task_id, agent_type, dependencies, priority)])
Plan(ids, dependencies, priority) ==
    [subtasks |->
        [i \in DOMAIN ids |->
            [task_id |-> ids[i],
             agent_type |-> "data_collector",
             dependencies |-> dependencies[i],
             priority |-> priority[i]]]]

\* key=lambda t: (len(t.dependencies), t.priority), compared as tuples
key_le(a, b) ==
    \/ Len(a.dependencies) < Len(b.dependencies)
    \/ /\ Len(a.dependencies) = Len(b.dependencies)
       /\ a.priority <= b.priority

\* sorted() is stable: a task goes after every task whose key is not greater
RECURSIVE insert_sorted(_, _)
insert_sorted(tasks, task) ==
    IF tasks = <<>> THEN <<task>>
    ELSE IF key_le(Head(tasks), task)
    THEN <<Head(tasks)>> \o insert_sorted(Tail(tasks), task)
    ELSE <<task>> \o tasks

RECURSIVE sorted_by_key(_, _)
sorted_by_key(tasks, done) ==
    IF tasks = <<>> THEN done
    ELSE sorted_by_key(Tail(tasks), insert_sorted(done, Head(tasks)))

optimize_plan(plan) == [plan EXCEPT !.subtasks = sorted_by_key(plan.subtasks, <<>>)]

RECURSIVE get_executable_tasks_any_dep(_, _)
get_executable_tasks_any_dep(tasks, completed_task_ids) ==
    IF tasks = <<>> THEN <<>>
    ELSE LET task == Head(tasks)
             rest == get_executable_tasks_any_dep(Tail(tasks), completed_task_ids)
         IN  IF task.task_id \in completed_task_ids THEN rest
             ELSE IF \E d \in DOMAIN task.dependencies :
                        task.dependencies[d] \in completed_task_ids
             THEN <<task>> \o rest
             ELSE rest

RECURSIVE get_executable_tasks(_, _)
get_executable_tasks(tasks, completed_task_ids) ==
    IF tasks = <<>> THEN <<>>
    ELSE LET task == Head(tasks)
             rest == get_executable_tasks(Tail(tasks), completed_task_ids)
         IN  IF task.task_id \in completed_task_ids THEN rest
             ELSE IF \A d \in DOMAIN task.dependencies :
                        task.dependencies[d] \in completed_task_ids
             THEN <<task>> \o rest
             ELSE rest

InitPlanTasks ==
    /\ \E ids \in IdOrders :
         \E dependencies \in [DOMAIN ids -> DependencyLists] :
            \E priority \in [DOMAIN ids -> 1..MaxPriority] :
                state = Plan(ids, dependencies, priority)
    /\ pc = "planned"
    /\ trace = <<>>
    /\ snapshot = None
    /\ pending = {}
    /\ failed = {}
    /\ branches = {}
    /\ outcome = "none"
    /\ citation_tracker = <<>>
    /\ session = 1

OptimizePlan ==
    /\ pc = "planned"
    /\ snapshot' = Some(state)
    /\ state' = optimize_plan(state)
    /\ pc' = "optimized"
    /\ UNCHANGED <<trace, pending, failed, branches, outcome, citation_tracker,
                   session>>

GetExecutableTasks ==
    /\ pc = "planned"
    /\ \E completed_task_ids \in SUBSET Range(DependencyOrder) :
         /\ pending' = completed_task_ids
         /\ trace' = get_executable_tasks(state.subtasks, completed_task_ids)
    /\ pc' = "selected"
    /\ UNCHANGED <<state, snapshot, failed, branches, outcome, citation_tracker,
                   session>>

NextPlanTasks == OptimizePlan

SpecPlanTasks == InitPlanTasks /\ [][NextPlanTasks]_vars

InitExecutableTasks ==
    /\ \E ids \in IdOrders :
         \E dependencies \in [DOMAIN ids -> DependencyLists] :
            state = Plan(ids, dependencies, [i \in DOMAIN ids |-> default_priority])
    /\ pc = "planned"
    /\ trace = <<>>
    /\ snapshot = None
    /\ pending = {}
    /\ failed = {}
    /\ branches = {}
    /\ outcome = "none"
    /\ citation_tracker = <<>>
    /\ session = 1

NextExecutableTasks == GetExecutableTasks

SpecExecutableTasks == InitExecutableTasks /\ [][NextExecutableTasks]_vars

\* ------------------------------------------------- the retrying executors
\* LLMExecutor.invoke and ToolExecutor.execute_tool are wrapped by tenacity's
\* retry decorator; the decorator sees what the decorated body raises.

\* stop_after_attempt(4)
StopAfterAttempt == 4

\* retry_if_exception_type((ConnectionError, TimeoutError))
RetriedExceptions == {"ConnectionError", "TimeoutError"}

\* What the underlying call (self.llm.invoke, self.tools[tool_name]) does
CallResults == {"success", "ConnectionError", "TimeoutError", "ValueError"}

\* One call of an executor: which executor, whether the tool is registered,
\* and what the underlying call does at each attempt
ExecutorCalls ==
    [executor : {"invoke", "execute_tool"},
     registered : BOOLEAN,
     results : [1..StopAfterAttempt -> CallResults]]

\* What one run of the decorated body ends with: the except branch turns
\* every exception of the underlying call into ExecutorError, and
\* execute_tool raises ExecutorError for an unknown tool
executor_body(call, attempt_number) ==
    IF call.executor = "execute_tool" /\ ~call.registered THEN "ExecutorError"
    ELSE IF call.results[attempt_number] = "success" THEN "success"
    ELSE "ExecutorError"

\* tenacity after an attempt: return the result, call again, or re-raise
retry_decision(result, attempt_number) ==
    IF result = "success" THEN "returned"
    ELSE IF result \in RetriedExceptions /\ attempt_number < StopAfterAttempt
    THEN "calling"
    ELSE "raised"

InitRetry ==
    /\ pending \in ExecutorCalls
    /\ pc = "calling"
    /\ trace = <<>>
    /\ state = None
    /\ snapshot = None
    /\ failed = {}
    /\ branches = {}
    /\ outcome = "none"
    /\ citation_tracker = <<>>
    /\ session = 1

\* One attempt: the body runs and the decorator decides; trace holds what
\* each attempt ended with
Attempt ==
    /\ pc = "calling"
    /\ LET attempt_number == Len(trace) + 1
           result == executor_body(pending, attempt_number)
       IN  /\ trace' = Append(trace, result)
           /\ pc' = retry_decision(result, attempt_number)
    /\ UNCHANGED <<state, pending, snapshot, failed, branches, outcome,
                   citation_tracker, session>>

NextRetry == Attempt

SpecRetry == InitRetry /\ [][NextRetry]_vars

\* ------------------------------------------------- the staffing decision
\* LeadResearcherDecisionEngine.analyze_requirements over the requests the
\* API accepts, and the required_agents the lead_researcher node derives.

\* ReportRequirements: source_count le=31, page_count le=101
MaxRequestSources == 31
MaxRequestPages == 101

StaffingInputs ==
    [source_count : 0..MaxRequestSources,
     page_count : 1..MaxRequestPages,
     complexity : Complexities,
     include_analysis : BOOLEAN,
     has_api_keyword : BOOLEAN]

\* agent_allocations: one entry per staffed role, straight_through_llm last
agent_allocations(strategy) ==
    (IF strategy.data_collectors > 0
     THEN <<[agent_type |-> "data_collector", count |-> strategy.data_collectors]>>
     ELSE <<>>)
    \o (IF strategy.api_researchers > 0
        THEN <<[agent_type |-> "api_researcher", count |-> strategy.api_researchers]>>
        ELSE <<>>)
    \o (IF strategy.analysts > 0
        THEN <<[agent_type |-> "analyst", count |-> strategy.analysts]>>
        ELSE <<>>)
    \o <<[agent_type |-> "straight_through_llm",
          count |-> strategy.straight_through_llm]>>

InitStaffing ==
    /\ pending \in StaffingInputs
    /\ pc = "submitted"
    /\ state = None
    /\ trace = <<>>
    /\ snapshot = None
    /\ failed = {}
    /\ branches = {}
    /\ outcome = "none"
    /\ citation_tracker = <<>>
    /\ session = 1

\* The decision is taken and the lead_researcher node derives required_agents
AnalyzeRequirements ==
    /\ pc = "submitted"
    /\ LET strategy == analyze_requirements(pending)
       IN  /\ state' = strategy
           /\ trace' = agent_allocations(strategy)
           /\ snapshot' = Some(required_agents_of(strategy))
    /\ pc' = "decided"
    /\ UNCHANGED <<pending, failed, branches, outcome, citation_tracker, session>>

NextStaffing == AnalyzeRequirements

SpecStaffing == InitStaffing /\ [][NextStaffing]_vars

\* ------------------------------------------------------ the status route

\* get_report_status: total_tasks = 6
total_tasks == 6

\* progress = int((completed / total_tasks) * 100)
report_progress(s) == (Len(s.completed_tasks) * 100) \div total_tasks

\* C11 (as claimed): whenever check_completion is the node about to run,
\* every role of required_agents has its completion flag true, so that the
\* "incomplete" branch of the completion check is never taken.
C11_CheckSeesAllComplete == pc = "check_completion" => AllRequiredComplete

\* C12: the node after cost_calculator is always lead_researcher, for every
\* budget status, for a missing cost estimate and for a failed cost_calculator
\* node; the run never goes from cost_calculator to END.
C12_AlwaysProceed ==
    /\ (trace # <<>> /\ Last(trace) = "cost_calculator") => pc = "lead_researcher"
    /\ Len(trace) >= 2 => (trace[1] = "cost_calculator" /\ trace[2] = "lead_researcher")

\* C12 witness: the cost estimate came back with budget status red and the
\* run proceeded to lead_researcher.
C12_Witness ==
    /\ trace = <<"cost_calculator">>
    /\ state.cost_estimate = Some("red")
    /\ pc = "lead_researcher"

\* C12 second case: the cost_calculator node failed, no estimate is stored,
\* and lead_researcher has run after it.
C12_FailedCostProceeds ==
    /\ "cost_calculator" \in failed
    /\ state.cost_estimate = None
    /\ Executed("lead_researcher")

IsPrefix(a, b) == Len(a) <= Len(b) /\ SubSeq(b, 1, Len(a)) = a

ListFields == {"completed_tasks", "errors", "citations"}

\* C17: every step of a run leaves completed_tasks, errors and citations
\* append-only: the value of each list before the step is a prefix of its
\* value after the step.
C17_AppendOnly ==
    [][\A f \in ListFields : IsPrefix(state[f], state'[f])]_vars

\* C17 witness: a run in which each of the three lists received entries from
\* more than one node update.
C17_Witness ==
    /\ Len(state.errors) >= 2
    /\ Len(state.completed_tasks) >= 2
    /\ state.citations = <<"url_a", "url_b", "api_citation">>

\* the last update carried a completion map (or None) for the reducer
MergedCompletion ==
    pc = "reduced" /\ "agent_completion_status" \in DOMAIN pending

\* C14: merge_completion_status(left, right) of two maps has the union of
\* both key sets, with right's value for every key of right and left's value
\* for every other key; with exactly one argument None it is the other
\* argument, and with both None it is None.
C14_MergeKeyWise ==
    MergedCompletion =>
        LET left == snapshot[1].agent_completion_status
            right == pending.agent_completion_status
            merged == state.agent_completion_status
        IN  /\ (left = None /\ right = None) => merged = None
            /\ (left = None /\ right # None) => merged = right
            /\ (left # None /\ right = None) => merged = left
            /\ (left # None /\ right # None) =>
                  /\ merged # None
                  /\ DOMAIN merged[1] = (DOMAIN left[1]) \cup (DOMAIN right[1])
                  /\ \A k \in DOMAIN right[1] : merged[1][k] = right[1][k]
                  /\ \A k \in (DOMAIN left[1]) \ (DOMAIN right[1]) :
                        merged[1][k] = left[1][k]

\* C14 witness: the stored map and the update disagree on data_collector, and
\* analyst is a key of the stored map only.
C14_Witness ==
    /\ MergedCompletion
    /\ snapshot[1].agent_completion_status
          = Some([k \in CompletionKeys |-> k = "data_collector"])
    /\ pending.agent_completion_status
          = Some([k \in {"data_collector"} |-> FALSE])
    /\ state.agent_completion_status = Some([k \in CompletionKeys |-> FALSE])

\* The value of the update that arrived last among those that carry the
\* field with a value outside empties; initial when there is none.
LastArrived(field, empties, initial) ==
    LET idx == {i \in DOMAIN trace :
                   field \in DOMAIN trace[i] /\ trace[i][field] \notin empties}
    IN  IF idx = {} THEN initial
        ELSE trace[CHOOSE i \in idx : \A j \in idx : j <= i][field]

\* current_agent is the most recently arrived value that is neither None nor
\* the empty string; while no such value has arrived it is None or empty.
AgentIsLastNonEmpty ==
    LET v == LastArrived("current_agent", {None, Some("")}, None)
    IN  IF v = None THEN state.current_agent \in {None, Some("")}
        ELSE state.current_agent = v

C16_MergeIdempotent ==
    pc = "replayed" =>
        state.agent_completion_status = snapshot[1].agent_completion_status

\* C16 witness: an update that overwrites one key of a two-key map was merged
\* twice.
C16_Witness ==
    /\ pc = "replayed"
    /\ trace = <<[agent_completion_status |->
                     Some([k \in CompletionKeys |-> k = "data_collector"])],
                 [agent_completion_status |->
                     Some([k \in {"data_collector"} |-> FALSE])]>>
    /\ state.agent_completion_status = Some([k \in CompletionKeys |-> FALSE])

\* C18 (as claimed): after StateManager.update_state the stored record equals
\* what the graph's field reducers make of the previous record and the same
\* partial update.
C18_RegistryAppliesReducers ==
    pc = "updated" => state = ApplyUpdate(snapshot[1], pending)

\* C19 (as claimed): in a session that runs after another one on the same
\* workflow instance, the citations the data collector leaves in the Run
\* State are those of the session's own urls, as if no session had run
\* before.
C19_SessionIsolation ==
    (/\ session > 1
     /\ trace # <<>> /\ Last(trace) = "data_collector"
     /\ outcome = "ok"
     /\ pc # "raised")
        => state.citations
              = data_collector_execute(<<>>, state.report_requirements.urls).citations

\* the LLM returned a text that holds no JSON object, or one that json.loads
\* rejects
Unparseable ==
    /\ ~pending.raises
    /\ \/ json_match(pending.response) = None
       \/ json_loads_raises(json_match(pending.response)[1])

\* C20 (as claimed): whenever the LLM's text cannot be parsed into a plan,
\* create_plan returns the plan of exactly 3 subtasks task_1 (data_collector),
\* task_2 (analyst, depends on task_1), task_3 (writer, depends on task_1 and
\* task_2).
C20_PlannerFallback ==
    (pc = "planned" /\ Unparseable) => state = create_fallback_plan

\* the position of the subtask with this id in the plan
PlanPosition(task_id) ==
    CHOOSE i \in DOMAIN state.subtasks : state.subtasks[i].task_id = task_id

\* the subtask is not completed and every id it depends on is completed
ReadyToExecute(task) ==
    /\ task.task_id \notin pending
    /\ Range(task.dependencies) \subseteq pending

\* C21: get_executable_tasks returns, in plan order, exactly the subtasks
\* whose id is not completed and whose dependency ids are all completed; a
\* subtask with a dependency id that is not completed, also one that names
\* no subtask of the plan, is not returned.
C21_ExecutableTasks ==
    pc = "selected" =>
        /\ \A i \in DOMAIN trace :
              /\ trace[i] \in Range(state.subtasks)
              /\ ReadyToExecute(trace[i])
        /\ \A k \in DOMAIN state.subtasks :
              ReadyToExecute(state.subtasks[k])
                  => state.subtasks[k] \in Range(trace)
        /\ \A i, j \in DOMAIN trace :
              i < j => PlanPosition(trace[i].task_id) < PlanPosition(trace[j].task_id)

\* C21 witness: of three subtasks one is completed, one waits for an id that
\* names no subtask, and the third is returned.
C21_Witness ==
    /\ pc = "selected"
    /\ Len(state.subtasks) = 3
    /\ pending = {"task_1"}
    /\ \E k \in DOMAIN state.subtasks :
          /\ state.subtasks[k].dependencies = <<"task_1", "task_9">>
          /\ state.subtasks[k] \notin Range(trace)
    /\ Len(trace) = 1
    /\ trace[1].dependencies = <<"task_1">>

\* the ids of the plan's subtasks
PlanIds == {state.subtasks[i].task_id : i \in DOMAIN state.subtasks}

\* the subtask with id a depends on the subtask with id b
DependsOn(a, b) ==
    \E i \in DOMAIN state.subtasks :
        /\ state.subtasks[i].task_id = a
        /\ b \in Range(state.subtasks[i].dependencies)

\* there is a chain of at most n dependencies from a to b
RECURSIVE DependsThrough(_, _, _)
DependsThrough(a, b, n) ==
    /\ n > 0
    /\ \/ DependsOn(a, b)
       \/ \E c \in PlanIds : DependsOn(a, c) /\ DependsThrough(c, b, n - 1)

\* the dependency relation is acyclic and names subtasks of the plan only
WellFormedPlan ==
    /\ \A i \in DOMAIN state.subtasks :
          Range(state.subtasks[i].dependencies) \subseteq PlanIds
    /\ \A a \in PlanIds : ~DependsThrough(a, a, Cardinality(PlanIds))

\* C28 (as claimed): after optimize_plan on a plan whose dependencies are
\* acyclic and name subtasks of the plan only, every subtask appears later
\* in plan.subtasks than each subtask it depends on.
C28_PrerequisitesFirst ==
    (pc = "optimized" /\ WellFormedPlan) =>
        \A a, b \in PlanIds :
            DependsOn(a, b) => PlanPosition(b) < PlanPosition(a)

\* the underlying call is reached and fails with a transient error at every
\* attempt
AlwaysTransient ==
    /\ pending.executor = "execute_tool" => pending.registered
    /\ \A i \in DOMAIN pending.results : pending.results[i] \in RetriedExceptions

\* C22 (as claimed): a call whose every attempt fails with ConnectionError
\* or TimeoutError is retried until the 4th attempt; a call that fails with
\* any other error is attempted exactly once; no call is attempted more than
\* 4 times.
C22_RetryPolicy ==
    pc \in {"returned", "raised"} =>
        /\ Len(trace) <= StopAfterAttempt
        /\ AlwaysTransient => Len(trace) = StopAfterAttempt
        /\ (pc = "raised" /\ pending.results[Len(trace)] \notin RetriedExceptions)
              => Len(trace) = 1

\* C23: every staffing decision has exactly one straight_through_llm
\* allocation, with count 1; total_agents_needed is data_collectors +
\* api_researchers + analysts + 1; and required_agents contains
\* straight_through_llm whatever the three other counts are.
C23_FallbackAlwaysStaffed ==
    pc = "decided" =>
        /\ Cardinality({i \in DOMAIN trace :
                           trace[i].agent_type = "straight_through_llm"}) = 1
        /\ \A i \in DOMAIN trace :
              trace[i].agent_type = "straight_through_llm" => trace[i].count = 1
        /\ state.total_agents_needed
              = state.data_collectors + state.api_researchers + state.analysts + 1
        /\ "straight_through_llm" \in Range(snapshot[1])

\* C23 witness: a decision with no api_researcher and no analyst: two
\* agents in total, straight_through_llm one of them.
C23_Witness ==
    /\ pc = "decided"
    /\ state.api_researchers = 0
    /\ state.analysts = 0
    /\ state.data_collectors = 1
    /\ state.total_agents_needed = 2
    /\ snapshot[1] = <<"data_collector", "straight_through_llm">>

\* C24: sources_per_collector is 5, 3, 3 for simple, medium, complex, and
\* data_collectors is the larger of 1 and source_count divided by
\* sources_per_collector, rounded up; it is 1 for source_count 0.
C24_CollectorCount ==
    pc = "decided" =>
        LET per == CASE pending.complexity = "simple" -> 5
                     [] pending.complexity = "medium" -> 3
                     [] pending.complexity = "complex" -> 3
        IN  /\ state.estimated_sources_per_collector = per
            /\ state.data_collectors >= 1
            /\ pending.source_count > 0 =>
                  /\ state.data_collectors * per >= pending.source_count
                  /\ (state.data_collectors - 1) * per < pending.source_count
            /\ pending.source_count = 0 => state.data_collectors = 1

\* C24 witness: decisions were taken for no sources and for the largest
\* accepted source count: 31 sources at 3 per collector need 11 collectors.
C24_Witness ==
    /\ pc = "decided"
    /\ pending.source_count = MaxRequestSources
    /\ pending.complexity = "complex"
    /\ state.data_collectors = 11

\* C25: with complexity and every other input fixed, a request with fewer
\* sources never gets more data collectors.
C25_StaffingMonotone ==
    pc = "decided" =>
        \A s1 \in 0..pending.source_count :
            analyze_requirements([pending EXCEPT !.source_count = s1]).data_collectors
                <= state.data_collectors

\* C25 witness: a decision with more collectors than the same request with
\* one source less.
C25_Witness ==
    /\ pc = "decided"
    /\ pending.source_count > 0
    /\ analyze_requirements(
           [pending EXCEPT !.source_count = @ - 1]).data_collectors
          < state.data_collectors

\* the request of Scenario B: complexity simple, no analysis
ScenarioB ==
    /\ state.report_requirements.complexity = "simple"
    /\ ~state.report_requirements.include_analysis

\* C26: for complexity simple and include_analysis false the decision has
\* no api_researcher and no analyst, required_agents (once lead_researcher
\* has set it) is exactly data_collector, straight_through_llm, the
\* api_researcher and analyst nodes never execute, and the writer executes
\* only with the flags of data_collector and straight_through_llm true.
C26_ScenarioB ==
    ScenarioB =>
        /\ analyze_requirements(state.report_requirements).api_researchers = 0
        /\ analyze_requirements(state.report_requirements).analysts = 0
        /\ state.required_agents # None =>
              state.required_agents = Some(<<"data_collector", "straight_through_llm">>)
        /\ pc \notin {"api_researcher", "analyst"}
        /\ ~Executed("api_researcher")
        /\ ~Executed("analyst")
        /\ (pc = "writer" \/ Executed("writer")) =>
              (Flag("data_collector") /\ Flag("straight_through_llm"))

\* C26 witness: a Scenario B run that ended with a report after exactly the
\* two required roles.
C26_Witness ==
    /\ ScenarioB
    /\ pc = "END"
    /\ state.status = "completed"
    /\ trace = <<"cost_calculator", "lead_researcher", "synthesizer",
                 "data_collector", "straight_through_llm", "check_completion",
                 "writer">>

\* C27: the check_completion node changes no field of the Run State: the
\* state after the node equals the state before it.
C27_CheckCompletionIsPure ==
    [][pc = "check_completion" => state' = state]_vars

\* C27 witness: check_completion has just run after a successful
\* straight_through_llm, and status and current_agent are still the ones
\* that node wrote.
C27_Witness ==
    /\ trace # <<>> /\ Last(trace) = "check_completion"
    /\ pc = "writer"
    /\ state.status = "llm_content_complete"
    /\ state.current_agent = Some("straight_through_llm")
    /\ Len(state.completed_tasks) = 7

\* the role's completion flag in a Run State
FlagIn(s, role) ==
    /\ s.agent_completion_status # None
    /\ role \in DOMAIN s.agent_completion_status[1]
    /\ s.agent_completion_status[1][role]

\* C29: within a run a role's flag that is true stays true, and a flag
\* becomes true only in the step of that role's own node.
C29_FlagsMonotone ==
    [][\A role \in RoleNodes :
          /\ FlagIn(state, role) => FlagIn(state', role)
          /\ (~FlagIn(state, role) /\ FlagIn(state', role)) => pc = role]_vars

\* C29 witness: all four roles were required and each has set its flag.
C29_Witness ==
    /\ pc = "check_completion"
    /\ Len(state.required_agents[1]) = 4
    /\ \A role \in RoleNodes : Flag(role)
    /\ failed = {}

\* C30 (as claimed): for every Run State a run ends with, the progress that
\* report-status computes is between 0 and 100: completed_tasks has at most
\* total_tasks entries.
C30_ProgressWithinRange ==
    AtEnd =>
        /\ report_progress(state) \in 0..100
        /\ Len(state.completed_tasks) <= total_tasks

====
